---- MODULE Spec2Model ----
(***************************************************************************)
(* Verification model of the "infinite wiki" front end:                    *)
(*   - the API gateway (src/services/geminiService.ts), six operations     *)
(*     that check the credential, call the remote model, unwrap/parse/     *)
(*     validate the response and return or raise;                          *)
(*   - the wiki-mode controller (App, src/unnamed/part_000), whose effect  *)
(*     starts one fetch cycle (art, cultural concepts, definition stream)  *)
(*     per (topic, mode) change and marks the previous cycle cancelled.    *)
(*   - the miner and script-writer views (src/components), each with one   *)
(*     request at a time whose outcome becomes results or an error;        *)
(*   - the art display (AsciiArtDisplay, src/unnamed/part_002), which      *)
(*     types the art of the wiki view one character per timer tick.        *)
(*                                                                         *)
(* Strings are sequences of tokens (a token is a character or an atomic    *)
(* piece of text); null is <<>> and a present value v is <<v>>.            *)
(* One action is one JavaScript task: a user event, or the arrival of a    *)
(* remote response together with the continuations it runs.  React's       *)
(* commit of a handler's updates, the effect cleanup and the effect body   *)
(* run inside the task of the event that caused them.                      *)
(***************************************************************************)
EXTENDS Integers, Sequences, FiniteSets, TLC

VARIABLES apiKey, gw, app, cycles, now, views, display

vars == <<apiKey, gw, app, cycles, now, views, display>>

(* ------------------------------ bounds -------------------------------- *)
MaxChunks == 2
MaxCycles == 2
MaxTime == 1
MaxPickCycles == 3

(* ------------------------- string primitives -------------------------- *)
Null == <<>>
Some(x) == <<x>>

IsWs(c) == c \in {" ", "\n"}

RECURSIVE TrimStart(_)
TrimStart(s) == IF s # <<>> /\ IsWs(Head(s)) THEN TrimStart(Tail(s)) ELSE s

RECURSIVE TrimEnd(_)
TrimEnd(s) ==
  IF s # <<>> /\ IsWs(s[Len(s)]) THEN TrimEnd(SubSeq(s, 1, Len(s) - 1)) ELSE s

Trim(s) == TrimEnd(TrimStart(s))

StartsWith(s, p) == Len(s) >= Len(p) /\ SubSeq(s, 1, Len(p)) = p
EndsWith(s, p) == Len(s) >= Len(p) /\ SubSeq(s, Len(s) - Len(p) + 1, Len(s)) = p

(* --------------------------- fence unwrapping ------------------------- *)
\* the token standing for a run of three backquotes
Fence == "<fence>"

\* length of the longest whitespace run of s starting at position i
RECURSIVE WsRun(_, _)
WsRun(s, i) == IF i <= Len(s) /\ IsWs(s[i]) THEN 1 + WsRun(s, i + 1) ELSE 0

\* fenceRegex: opening fence, optional json tag, greedy whitespace, lazy
\* group 1, optional whitespace, closing fence at the end of the string.
\* The greedy tag and whitespace take all they can; the lazy group stops at
\* the first position from which only whitespace and the closing fence remain.
FenceCaptureNoTag(s) ==
  LET n == Len(s)
      from == 2 + WsRun(s, 2)
      body == SubSeq(s, from, n - 1)
  IN  TrimEnd(body)

FenceCapture(s) ==
  LET n == Len(s)
      afterTag == IF n >= 2 /\ s[2] = "json" THEN 3 ELSE 2
      from == afterTag + WsRun(s, afterTag)
      body == SubSeq(s, from, n - 1)
  IN  TrimEnd(body)

FenceMatches(s) == Len(s) >= 2 /\ s[1] = Fence /\ s[Len(s)] = Fence

\* let jsonStr = response.text.trim(); if (match && match[1]) jsonStr = match[1].trim()
UnwrapFence(text) ==
  LET jsonStr == Trim(text)
  IN  IF FenceMatches(jsonStr) /\ FenceCapture(jsonStr) # <<>>
        THEN Trim(FenceCapture(jsonStr))
        ELSE jsonStr

(* ------------------------------ JSON.parse ---------------------------- *)
\* A payload is a token sequence: an object is "{" fields "}", an array is
\* "[" items "]", a scalar is one token; anything else is a SyntaxError.
FieldToks ==
  { "art:X", "art:", "art:_", "art:1", "text:T",
    "results:[]", "results:[r]", "results:1",
    "script:S", "script:", "script:null",
    "romanization:R", "ipa:I", "note:N" }

ItemToks == { "c1", "c2" }

Undefined == [t |-> "undefined", v |-> <<>>]

FieldKey(tok) ==
  CASE tok \in {"art:X", "art:", "art:_", "art:1"} -> "art"
    [] tok = "text:T" -> "text"
    [] tok \in {"results:[]", "results:[r]", "results:1"} -> "results"
    [] tok \in {"script:S", "script:", "script:null"} -> "script"
    [] tok = "romanization:R" -> "romanization"
    [] tok = "ipa:I" -> "ipa"
    [] tok = "note:N" -> "note"
    [] OTHER -> "?"

FieldVal(tok) ==
  CASE tok = "art:X" -> [t |-> "string", v |-> <<"X">>]
    [] tok = "art:" -> [t |-> "string", v |-> <<>>]
    [] tok = "art:_" -> [t |-> "string", v |-> <<" ">>]
    [] tok = "art:1" -> [t |-> "number", v |-> <<"1">>]
    [] tok = "text:T" -> [t |-> "string", v |-> <<"T">>]
    [] tok = "results:[]" -> [t |-> "array", v |-> <<>>]
    [] tok = "results:[r]" -> [t |-> "array", v |-> <<"r">>]
    [] tok = "results:1" -> [t |-> "number", v |-> <<"1">>]
    [] tok = "script:S" -> [t |-> "string", v |-> <<"S">>]
    [] tok = "script:" -> [t |-> "string", v |-> <<>>]
    [] tok = "script:null" -> [t |-> "null", v |-> <<>>]
    [] tok = "romanization:R" -> [t |-> "string", v |-> <<"R">>]
    [] tok = "ipa:I" -> [t |-> "string", v |-> <<"I">>]
    [] tok = "note:N" -> [t |-> "string", v |-> <<"N">>]
    [] OTHER -> Undefined

Inner(s) == SubSeq(s, 2, Len(s) - 1)

AllIn(s, S) == \A i \in 1..Len(s) : s[i] \in S

SyntaxError == <<"Unexpected token in JSON">>

\* JSON.parse(jsonStr): the parsed value, or a thrown SyntaxError
JSONParse(s) ==
  IF Len(s) >= 2 /\ s[1] = "{" /\ s[Len(s)] = "}" /\ AllIn(Inner(s), FieldToks)
    THEN [ok |-> TRUE, t |-> "object", v |-> Inner(s)]
  ELSE IF Len(s) >= 2 /\ s[1] = "[" /\ s[Len(s)] = "]" /\ AllIn(Inner(s), ItemToks)
    THEN [ok |-> TRUE, t |-> "array", v |-> Inner(s)]
  ELSE IF s = <<"null">> THEN [ok |-> TRUE, t |-> "null", v |-> <<>>]
  ELSE IF s = <<"1">> THEN [ok |-> TRUE, t |-> "number", v |-> s]
  ELSE [ok |-> FALSE, t |-> "error", v |-> SyntaxError]

\* obj.key : the value of the last field with that key, else undefined
RECURSIVE GetField(_, _)
GetField(fields, key) ==
  IF fields = <<>> THEN Undefined
  ELSE IF FieldKey(fields[Len(fields)]) = key THEN FieldVal(fields[Len(fields)])
  ELSE GetField(SubSeq(fields, 1, Len(fields) - 1), key)

\* parsed.key for any parsed value (a non-object has no such property)
Prop(parsed, key) == IF parsed.t = "object" THEN GetField(parsed.v, key) ELSE Undefined

Falsy(val) == val.t \in {"undefined", "null"} \/ (val.t = "string" /\ val.v = <<>>)

(* ------------------------- the remote model --------------------------- *)
\* what one remote call produces: a response text, or a thrown value that is
\* an Error with a message or some other value
RespText(txt) == [fail |-> FALSE, isError |-> FALSE, text |-> txt]
RemoteFailures ==
  { [fail |-> TRUE, isError |-> TRUE, text |-> <<"boom">>],
    [fail |-> TRUE, isError |-> FALSE, text |-> <<>>] }

Payloads ==
  { <<"{", "art:X", "}">>, <<"{", "art:X", "text:T", "}">>,
    <<"{", "art:", "}">>, <<"{", "art:_", "}">>, <<"{", "art:1", "}">>,
    <<"{", "art:", "art:X", "}">>, <<"{", "art:X", "art:", "}">>,
    <<"{", "}">>, <<"{", "junk", "}">>, <<"junk">>, <<"null">>, <<"1">>, <<>>,
    <<"[", "]">>, <<"[", "c1", "c2", "]">>,
    <<"{", "results:[]", "}">>, <<"{", "results:[r]", "}">>, <<"{", "results:1", "}">>,
    <<"{", "script:S", "romanization:R", "ipa:I", "note:N", "}">>,
    <<"{", "script:S", "}">>, <<"{", "script:", "note:N", "}">>,
    <<"{", "script:null", "romanization:R", "}">> }

\* the ways a payload arrives wrapped in a fenced code block
FenceJson(p) == <<Fence, "json", "\n">> \o p \o <<"\n", Fence>>
FencePlain(p) == <<Fence, "\n">> \o p \o <<"\n", Fence>>
FenceTight(p) == <<Fence>> \o p \o <<Fence>>
FencePadded(p) == <<" ", Fence, "json", " ", "\n">> \o p \o <<" ", "\n", Fence, "\n">>
Fencings(p) == { FenceJson(p), FencePlain(p), FenceTight(p), FencePadded(p) }

Padded(p) == <<"\n">> \o p \o <<" ">>

Texts == Payloads \cup UNION { Fencings(p) : p \in Payloads } \cup { Padded(p) : p \in Payloads }

Responses == { RespText(t) : t \in Texts } \cup RemoteFailures

(* --------------------------- gateway results -------------------------- *)
Returned(val) == [ok |-> TRUE, value |-> Some(val), message |-> <<>>]
Raised(msg) == [ok |-> FALSE, value |-> Null, message |-> msg]

ConfigMessage == <<"API_KEY is not configured.">>
ConfigFragment ==
  <<"Error:", " ", "API_KEY is not configured. Please check your environment variables to continue.">>

\* error instanceof Error ? error.message : fallback
MessageOf(r, fallback) == IF r.isError THEN r.text ELSE fallback
UnknownError == <<"An unknown error occurred.">>

(* --------------------------- generateAsciiArt ------------------------- *)
maxRetries == 1
ENABLE_ASCII_TEXT_GENERATION == FALSE

\* the body of the try block for one response: a result or a thrown Error
ArtTryNoTrim(r) ==
  IF r.fail THEN Raised(MessageOf(r, <<"Unknown error occurred">>))
  ELSE LET jsonStr == UnwrapFence(r.text)
           parsedData == JSONParse(jsonStr)
           art == Prop(parsedData, "art")
           text == Prop(parsedData, "text")
       IN  IF ~StartsWith(jsonStr, <<"{">>) \/ ~EndsWith(jsonStr, <<"}">>)
             THEN Raised(<<"Response is not a valid JSON object">>)
           ELSE IF ~parsedData.ok THEN Raised(parsedData.v)
           ELSE IF art.t # "string" \/ Len(art.v) = 0
             THEN Raised(<<"Invalid or empty ASCII art in response">>)
           ELSE Returned([art |-> art.v,
                          text |-> IF ENABLE_ASCII_TEXT_GENERATION /\ ~Falsy(text)
                                     THEN Some(text.v) ELSE Null])

ArtTry(r) ==
  IF r.fail THEN Raised(MessageOf(r, <<"Unknown error occurred">>))
  ELSE LET jsonStr == UnwrapFence(r.text)
           parsedData == JSONParse(jsonStr)
           art == Prop(parsedData, "art")
           text == Prop(parsedData, "text")
       IN  IF ~StartsWith(jsonStr, <<"{">>) \/ ~EndsWith(jsonStr, <<"}">>)
             THEN Raised(<<"Response is not a valid JSON object">>)
           ELSE IF ~parsedData.ok THEN Raised(parsedData.v)
           ELSE IF art.t # "string" \/ Len(Trim(art.v)) = 0
             THEN Raised(<<"Invalid or empty ASCII art in response">>)
           ELSE Returned([art |-> art.v,
                          text |-> IF ENABLE_ASCII_TEXT_GENERATION /\ ~Falsy(text)
                                     THEN Some(text.v) ELSE Null])

\* the loop "for (attempt = 1; attempt <= maxRetries; attempt++)" after the
\* response of the given attempt: the outcome when the operation settles
\* (done), else the next attempt, which issues another request
generateAsciiArt(attempt, r) ==
  LET t == ArtTry(r)
  IN  IF t.ok THEN [done |-> TRUE, res |-> t]
      ELSE IF attempt = maxRetries
        THEN [done |-> TRUE,
              res |-> Raised(<<"Could not generate ASCII art after attempts: ">> \o t.message)]
      ELSE [done |-> FALSE, res |-> t]

(* ------------------------ getCrossCulturalConcepts -------------------- *)
ConceptsTryUnchecked(r) ==
  IF r.fail THEN Raised(MessageOf(r, UnknownError))
  ELSE LET concepts == JSONParse(UnwrapFence(r.text))
       IN  IF ~concepts.ok THEN Raised(concepts.v)
           ELSE Returned(concepts.v)

ConceptsTry(r) ==
  IF r.fail THEN Raised(MessageOf(r, UnknownError))
  ELSE LET concepts == JSONParse(UnwrapFence(r.text))
       IN  IF ~concepts.ok THEN Raised(concepts.v)
           ELSE IF concepts.t # "array"
             THEN Raised(<<"Response is not a valid array of concepts.">>)
           ELSE Returned(concepts.v)

getCrossCulturalConcepts(r) ==
  LET t == ConceptsTry(r)
  IN  IF t.ok THEN t ELSE Raised(<<"Could not fetch cultural concepts: ">> \o t.message)

(* ----------------------- performPhonosemanticSearch ------------------- *)
PhonoTryUnchecked(r) ==
  IF r.fail THEN Raised(MessageOf(r, UnknownError))
  ELSE LET data == JSONParse(UnwrapFence(r.text))
           results == Prop(data, "results")
       IN  IF ~data.ok THEN Raised(data.v)
           ELSE Returned(results.v)

PhonoTry(r) ==
  IF r.fail THEN Raised(MessageOf(r, UnknownError))
  ELSE LET data == JSONParse(UnwrapFence(r.text))
           results == Prop(data, "results")
       IN  IF ~data.ok THEN Raised(data.v)
           ELSE IF data.t = "null" \/ results.t # "array"
             THEN Raised(<<"Invalid response format from API.">>)
           ELSE Returned(results.v)

performPhonosemanticSearch(r) ==
  LET t == PhonoTry(r)
  IN  IF t.ok THEN t ELSE Raised(<<"Could not perform phonosemantic search: ">> \o t.message)

(* ---------------------------- getScriptForWord ------------------------ *)
ScriptTryUnchecked(word, language, r) ==
  IF r.fail THEN Raised(MessageOf(r, UnknownError))
  ELSE LET jsonStr == Trim(r.text)
           parsed == JSONParse(jsonStr)
       IN  IF ~parsed.ok THEN Raised(parsed.v)
           ELSE IF parsed.t = "null"
             THEN Raised(<<"Cannot read properties of null">>)
           ELSE Returned([script |-> Prop(parsed, "script"),
                          romanization |-> Prop(parsed, "romanization"),
                          ipa |-> Prop(parsed, "ipa"),
                          note |-> Prop(parsed, "note"),
                          language |-> language,
                          word |-> word])

ScriptTry(word, language, r) ==
  IF r.fail THEN Raised(MessageOf(r, UnknownError))
  ELSE LET jsonStr == Trim(r.text)
           parsed == JSONParse(jsonStr)
       IN  IF ~parsed.ok THEN Raised(parsed.v)
           ELSE IF parsed.t = "null"
             THEN Raised(<<"Cannot read properties of null">>)
           ELSE IF Falsy(Prop(parsed, "script"))
             THEN Raised(<<"Could not find a representation for ">> \o word \o <<" in ">> \o language)
           ELSE Returned([script |-> Prop(parsed, "script"),
                          romanization |-> Prop(parsed, "romanization"),
                          ipa |-> Prop(parsed, "ipa"),
                          note |-> Prop(parsed, "note"),
                          language |-> language,
                          word |-> word])

getScriptForWord(word, language, r) ==
  LET t == ScriptTry(word, language, r)
  IN  IF t.ok THEN t
      ELSE Raised(<<"Could not get script for ">> \o word \o <<" in ">> \o language
                  \o <<": ">> \o t.message)

(* ------------------------------ getRandomWord ------------------------- *)
getRandomWord(r) ==
  IF r.fail THEN Raised(<<"Could not get random word: ">> \o MessageOf(r, UnknownError))
  ELSE Returned(Trim(r.text))

(* ----------------------------- streamDefinition ----------------------- *)
\* the fragment yielded by the catch block before it re-throws
StreamErrorFragment(topic, f) ==
  <<"Error:", " ", "Could not generate content for ">> \o topic \o <<". ">>
    \o MessageOf(f, UnknownError)

(* ---------------- the gateway, one invocation at a time --------------- *)
Ops == { "streamDefinition", "getRandomWord", "generateAsciiArt",
         "getCrossCulturalConcepts", "performPhonosemanticSearch", "getScriptForWord" }
JsonOps == { "generateAsciiArt", "getCrossCulturalConcepts",
             "performPhonosemanticSearch", "getScriptForWord" }

GwTopics == { <<"cat">>, <<"Order", " ", "and", " ", "chaos">> }

GwArgs(op) ==
  CASE op \in {"streamDefinition", "generateAsciiArt", "getCrossCulturalConcepts"}
         -> { <<t>> : t \in GwTopics }
    [] op = "getScriptForWord" -> { << <<"love">>, <<"Hebrew">> >> }
    [] OTHER -> { <<>> }

\* chunk.text values of the remote stream; an empty text is skipped
ChunkTexts == { <<"a">>, <<"b", ",">>, <<" ">>, <<>>, <<"Error:", "x">> }

NoRes == [ok |-> FALSE, value |-> Null, message |-> <<>>]

GwIdle ==
  [op |-> "none", pc |-> "idle", args |-> <<>>, attempt |-> 0, requests |-> 0,
   resps |-> <<>>, yielded |-> <<>>, res |-> NoRes]

\* if (!process.env.API_KEY) at the head of every operation: streamDefinition
\* yields one fragment and returns, the others throw
ConfigOutcome(op) ==
  IF op = "streamDefinition"
    THEN [yielded |-> <<ConfigFragment>>, res |-> Returned(<<>>)]
    ELSE [yielded |-> <<>>, res |-> Raised(ConfigMessage)]

GwCallUnguarded(op, args) ==
  /\ gw.pc = "idle"
  /\ gw' = [GwIdle EXCEPT !.op = op, !.args = args, !.pc = "await",
                          !.attempt = 1, !.requests = 1]
  /\ UNCHANGED <<apiKey, app, cycles, now, views, display>>

GwCall(op, args) ==
  /\ gw.pc = "idle"
  /\ IF ~apiKey
       THEN gw' = [GwIdle EXCEPT !.op = op, !.args = args, !.pc = "done",
                     !.yielded = ConfigOutcome(op).yielded,
                     !.res = ConfigOutcome(op).res]
       ELSE gw' = [GwIdle EXCEPT !.op = op, !.args = args, !.pc = "await",
                     !.attempt = 1, !.requests = 1]
  /\ UNCHANGED <<apiKey, app, cycles, now, views, display>>

GwOutcomeRetrying(op, args, attempt, r) ==
  LET o == CASE op = "generateAsciiArt" -> generateAsciiArt(attempt, r).res
             [] op = "getCrossCulturalConcepts" -> getCrossCulturalConcepts(r)
             [] op = "performPhonosemanticSearch" -> performPhonosemanticSearch(r)
             [] op = "getScriptForWord" -> getScriptForWord(args[1], args[2], r)
             [] OTHER -> getRandomWord(r)
  IN  [done |-> o.ok \/ attempt = 2, res |-> o]

\* the response of the single remote call of a request/response operation
GwOutcome(op, args, attempt, r) ==
  CASE op = "generateAsciiArt" -> generateAsciiArt(attempt, r)
    [] op = "getCrossCulturalConcepts" -> [done |-> TRUE, res |-> getCrossCulturalConcepts(r)]
    [] op = "performPhonosemanticSearch" -> [done |-> TRUE, res |-> performPhonosemanticSearch(r)]
    [] op = "getScriptForWord" -> [done |-> TRUE, res |-> getScriptForWord(args[1], args[2], r)]
    [] OTHER -> [done |-> TRUE, res |-> getRandomWord(r)]

GwRespond(r) ==
  /\ gw.pc = "await"
  /\ gw.op # "streamDefinition"
  /\ LET o == GwOutcome(gw.op, gw.args, gw.attempt, r)
     IN  gw' = IF o.done
                 THEN [gw EXCEPT !.pc = "done", !.resps = Append(@, r), !.res = o.res]
                 ELSE [gw EXCEPT !.resps = Append(@, r), !.attempt = @ + 1,
                                 !.requests = @ + 1]
  /\ UNCHANGED <<apiKey, app, cycles, now, views, display>>

\* for await (const chunk of response) if (chunk.text) yield chunk.text
GwStreamChunk(text) ==
  /\ gw.pc = "await"
  /\ gw.op = "streamDefinition"
  /\ Len(gw.yielded) < MaxChunks
  /\ gw' = IF text # <<>> THEN [gw EXCEPT !.yielded = Append(@, text)] ELSE gw
  /\ UNCHANGED <<apiKey, app, cycles, now, views, display>>

GwStreamEnd ==
  /\ gw.pc = "await"
  /\ gw.op = "streamDefinition"
  /\ gw' = [gw EXCEPT !.pc = "done", !.res = Returned(<<>>)]
  /\ UNCHANGED <<apiKey, app, cycles, now, views, display>>

GwStreamFailNoRaise(f) ==
  /\ gw.pc = "await"
  /\ gw.op = "streamDefinition"
  /\ gw' = [gw EXCEPT !.pc = "done", !.resps = Append(@, f),
                      !.yielded = Append(@, StreamErrorFragment(gw.args[1], f)),
                      !.res = Returned(<<>>)]
  /\ UNCHANGED <<apiKey, app, cycles, now, views, display>>

\* catch: yield the error fragment, then throw new Error(errorMessage)
GwStreamFail(f) ==
  /\ gw.pc = "await"
  /\ gw.op = "streamDefinition"
  /\ gw' = [gw EXCEPT !.pc = "done", !.resps = Append(@, f),
                      !.yielded = Append(@, StreamErrorFragment(gw.args[1], f)),
                      !.res = Raised(MessageOf(f, UnknownError))]
  /\ UNCHANGED <<apiKey, app, cycles, now, views, display>>

\* the caller has its result; the next invocation may begin
GwReturn ==
  /\ gw.pc = "done"
  /\ gw' = GwIdle
  /\ UNCHANGED <<apiKey, app, cycles, now, views, display>>

GwNext ==
  \/ \E op \in Ops : \E args \in GwArgs(op) : GwCall(op, args)
  \/ \E r \in Responses : GwRespond(r)
  \/ \E text \in ChunkTexts : GwStreamChunk(text)
  \/ GwStreamEnd
  \/ \E f \in RemoteFailures : GwStreamFail(f)
  \/ GwReturn

(* ================= the miner and script-writer views ================== *)
\* PhonosemanticMiner useState; pending: how many of its requests are in flight
MinerInit == [isLoading |-> FALSE, error |-> Null, results |-> <<>>, pending |-> 0]

\* ScriptWriter useState; call: the arguments of its request in flight,
\* pending: how many of its requests are in flight
WriterInit ==
  [word |-> <<"love">>, language |-> <<"Hebrew">>, result |-> Null,
   isLoading |-> FALSE, error |-> Null, call |-> Null, pending |-> 0]

ViewsInit == [miner |-> MinerInit, writer |-> WriterInit]

\* what the user may type into the two inputs of ScriptWriter
WriterWords == { <<"love">>, <<" ">> }
WriterLanguages == { <<"Hebrew">>, <<>> }

\* what the remote model answers to the requests of the two views
MinerResponses ==
  { RespText(<<"{", "results:[r]", "}">>), RespText(FenceJson(<<"{", "results:[]", "}">>)),
    RespText(<<"{", "}">>), RespText(<<"junk">>) } \cup RemoteFailures
WriterResponses ==
  { RespText(<<"{", "script:S", "romanization:R", "ipa:I", "note:N", "}">>),
    RespText(<<"{", "script:null", "romanization:R", "}">>),
    RespText(FenceJson(<<"{", "script:S", "}">>)), RespText(<<"null">>) } \cup RemoteFailures

\* PhonosemanticMiner.handleSearch after the await: try / catch / finally
MinerSettleNoCatch(v, res) ==
  IF res.ok
    THEN [v EXCEPT !.results = res.value[1], !.isLoading = FALSE, !.pending = @ - 1]
    ELSE [v EXCEPT !.isLoading = FALSE, !.pending = @ - 1]

MinerSettle(v, res) ==
  IF res.ok
    THEN [v EXCEPT !.results = res.value[1], !.isLoading = FALSE, !.pending = @ - 1]
    ELSE [v EXCEPT !.error = Some(res.message), !.isLoading = FALSE, !.pending = @ - 1]

\* ScriptWriter.handleSearch after the await: try / catch / finally
WriterSettle(v, res) ==
  IF res.ok
    THEN [v EXCEPT !.result = res.value, !.isLoading = FALSE, !.call = Null,
                   !.pending = @ - 1]
    ELSE [v EXCEPT !.error = Some(res.message), !.isLoading = FALSE, !.call = Null,
                   !.pending = @ - 1]

(* ============================ the art display ========================= *)
\* AsciiArtDisplay useState.  artData is the prop of the last render;
\* interval is the live timer with the locals of its closure, or null
DisplayInit ==
  [artData |-> Null, visibleContent |-> <<"*">>, isStreaming |-> FALSE, interval |-> Null]

\* artData.text ? art + "\n\n" + text : art
FullText(artData) ==
  IF artData.text # Null /\ artData.text[1] # <<>>
    THEN artData.art \o <<"\n", "\n">> \o artData.text[1]
    ELSE artData.art

ArtEffectKeepsText(d, artData) ==
  IF artData # Null
    THEN [artData |-> artData, visibleContent |-> d.visibleContent, isStreaming |-> TRUE,
          interval |-> Some([fullText |-> FullText(artData[1]), currentIndex |-> 0])]
    ELSE [artData |-> Null, visibleContent |-> <<"*">>, isStreaming |-> FALSE,
          interval |-> Null]

\* the effect on [artData]: the cleanup clears the interval of the previous
\* run, then the body starts typing or shows the placeholder
ArtEffect(d, artData) ==
  IF artData # Null
    THEN [artData |-> artData, visibleContent |-> <<>>, isStreaming |-> TRUE,
          interval |-> Some([fullText |-> FullText(artData[1]), currentIndex |-> 0])]
    ELSE [artData |-> Null, visibleContent |-> <<"*">>, isStreaming |-> FALSE,
          interval |-> Null]

\* the display after App went from view state a to a2: it is rendered in
\* wiki mode only, so leaving the mode unmounts it and coming back mounts a
\* new instance; while mounted its effect runs when the artData prop changes
AsciiArtDisplay(d, a, a2) ==
  IF a2.mode # "wiki" THEN DisplayInit
  ELSE IF a.mode # "wiki" THEN ArtEffect(DisplayInit, a2.asciiArt)
  ELSE IF a2.asciiArt = a.asciiArt THEN d
  ELSE ArtEffect(d, a2.asciiArt)

RenderArt == display' = AsciiArtDisplay(display, app, app')

\* the callback of window.setInterval(..., 5)
IntervalTick ==
  /\ display.interval # Null
  /\ LET t == display.interval[1]
     IN  display' =
           IF t.currentIndex < Len(t.fullText)
             THEN [display EXCEPT !.visibleContent = @ \o <<t.fullText[t.currentIndex + 1]>>,
                                  !.interval = Some([t EXCEPT !.currentIndex = @ + 1])]
             ELSE [display EXCEPT !.interval = Null, !.isStreaming = FALSE]
  /\ UNCHANGED <<apiKey, gw, app, cycles, now, views>>

(* ======================= the wiki-mode controller ===================== *)
\* toLowerCase, token by token
LowerTok(c) ==
  CASE c = "Hypertext" -> "hypertext"
    [] c = "Balance" -> "balance"
    [] c = "Harmony" -> "harmony"
    [] OTHER -> c

toLowerCase(s) == [i \in 1..Len(s) |-> LowerTok(s[i])]

\* the head of the curated list behind the random button
UNIQUE_WORDS == << <<"Balance">>, <<"Harmony">> >>

Modes == { "wiki", "miner", "writer" }

\* what the search box may hold when the form is submitted
Queries == { <<" ", "harmony", " ">>, <<"hypertext">>, <<" ">> }

\* the concepts the remote model names: item token -> {term, culture}
Concept(item) ==
  IF item = "c1" THEN [term |-> <<"ikigai", ",">>, culture |-> <<"Japanese">>]
  ELSE [term |-> <<" ", "hypertext">>, culture |-> <<"Greek">>]

\* what the remote model answers to the requests of a fetch cycle
CycleArtResponses ==
  { RespText(<<"{", "art:X", "}">>), RespText(<<"{", "art:", "}">>),
    [fail |-> TRUE, isError |-> TRUE, text |-> <<"boom">>] }
CycleConceptResponses ==
  { RespText(FenceJson(<<"[", "c1", "c2", "]">>)), RespText(<<"{", "}">>),
    [fail |-> TRUE, isError |-> TRUE, text |-> <<"boom">>] }
CycleChunkTexts == { <<"a">>, <<" ", "b", ",">>, <<>>, <<"Error:", "x">> }

FallbackMax == 20
FallbackKeep == 17

\* createFallbackArt: a three-line box around the topic, cut to 17 characters
\* and "..." when it is longer than 20
createFallbackArt(topic) ==
  LET displayableTopic ==
        IF Len(topic) > FallbackMax
          THEN SubSeq(topic, 1, FallbackKeep) \o <<".", ".", ".">>
          ELSE topic
      paddedTopic == <<" ">> \o displayableTopic \o <<" ">>
      bar == [i \in 1..Len(paddedTopic) |-> "-"]
  IN  [art |-> <<"+">> \o bar \o <<"+", "\n", "|">> \o paddedTopic \o <<"|", "\n", "+">>
                 \o bar \o <<"+">>,
       text |-> Null]

\* useState initial values
AppInit ==
  [currentTopic |-> <<"Hypertext">>, content |-> <<>>, isLoading |-> TRUE,
   error |-> Null, asciiArt |-> Null, generationTime |-> Null,
   culturalConcepts |-> <<>>, isCulturalLoading |-> FALSE, culturalError |-> Null,
   mode |-> "wiki",
   \* instrumentation: the fetch cycle whose handler stored each result (0: none)
   contentBy |-> 0, artBy |-> 0, conceptsBy |-> 0]

\* the closure of one run of fetchAllData and what it still waits for
NewCycle(topic) ==
  [topic |-> topic, isCancelled |-> FALSE, startTime |-> now,
   artAttempt |-> 1, conceptsPending |-> TRUE,
   stream |-> "open", accumulatedContent |-> <<>>,
   \* instrumentation: the fragments the loop body took, when the stream
   \* settled, and the outcomes handed to the art and concepts handlers
   received |-> <<>>, thrown |-> Null, endTime |-> Null,
   artRes |-> Null, conceptsRes |-> Null]

Live == IF cycles # <<>> /\ ~cycles[Len(cycles)].isCancelled THEN Len(cycles) ELSE 0

(* ---- the handlers of one fetch cycle, as functions of the view state --- *)
\* generateAsciiArt(...).then(setAsciiArt).catch(fallback), both under !isCancelled
ArtHandlerUnchecked(a, c, id, res) ==
  IF res.ok THEN [a EXCEPT !.asciiArt = Some(res.value[1]), !.artBy = id]
  ELSE [a EXCEPT !.asciiArt = Some(createFallbackArt(c.topic)), !.artBy = id]

ArtHandlerSetsError(a, c, id, res) ==
  IF c.isCancelled THEN a
  ELSE IF res.ok THEN [a EXCEPT !.asciiArt = Some(res.value[1]), !.artBy = id]
  ELSE [a EXCEPT !.asciiArt = Some(createFallbackArt(c.topic)), !.artBy = id,
                 !.error = Some(res.message)]

ArtHandlerNoFallback(a, c, id, res) ==
  IF c.isCancelled THEN a
  ELSE IF res.ok THEN [a EXCEPT !.asciiArt = Some(res.value[1]), !.artBy = id]
  ELSE a

ArtHandler(a, c, id, res) ==
  IF c.isCancelled THEN a
  ELSE IF res.ok THEN [a EXCEPT !.asciiArt = Some(res.value[1]), !.artBy = id]
  ELSE [a EXCEPT !.asciiArt = Some(createFallbackArt(c.topic)), !.artBy = id]

\* getCrossCulturalConcepts(...).then(...).catch(...).finally(...)
ConceptsHandlerUnchecked(a, c, id, res) ==
  IF res.ok
    THEN [a EXCEPT !.culturalConcepts = res.value[1], !.conceptsBy = id,
                   !.isCulturalLoading = FALSE]
  ELSE [a EXCEPT !.culturalError = Some(res.message), !.isCulturalLoading = FALSE]

ConceptsHandlerBanner(a, c, id, res) ==
  IF c.isCancelled THEN a
  ELSE IF res.ok
    THEN [a EXCEPT !.culturalConcepts = res.value[1], !.conceptsBy = id,
                   !.isCulturalLoading = FALSE]
  ELSE [a EXCEPT !.culturalError = Some(res.message), !.error = Some(res.message),
                 !.isCulturalLoading = FALSE]

ConceptsHandler(a, c, id, res) ==
  IF c.isCancelled THEN a
  ELSE IF res.ok
    THEN [a EXCEPT !.culturalConcepts = res.value[1], !.conceptsBy = id,
                   !.isCulturalLoading = FALSE]
  ELSE [a EXCEPT !.culturalError = Some(res.message), !.isCulturalLoading = FALSE]

StreamFinallyUnguarded(a, c) ==
  [a EXCEPT !.generationTime = Some(now - c.startTime), !.isLoading = FALSE]

\* finally { if (!isCancelled) { setGenerationTime(end - start); setIsLoading(false) } }
StreamFinally(a, c) ==
  IF c.isCancelled THEN a
  ELSE [a EXCEPT !.generationTime = Some(now - c.startTime), !.isLoading = FALSE]

StreamCatchKeepsContent(a, c, message) ==
  IF c.isCancelled THEN a
  ELSE [a EXCEPT !.error = Some(message)]

\* catch (e) { if (!isCancelled) { setError(message); setContent('') } }
StreamCatch(a, c, message) ==
  IF c.isCancelled THEN a
  ELSE [a EXCEPT !.error = Some(message), !.content = <<>>, !.contentBy = 0]

\* one pass of the loop body for a fragment the generator yields:
\* the view state and the closure afterwards
ChunkSetsOnlyChunk(a, c, id, chunk) ==
  IF c.isCancelled
    THEN [a |-> StreamFinally(a, c), c |-> [c EXCEPT !.stream = "abandoned"]]
  ELSE IF StartsWith(chunk, <<"Error:">>)
    THEN [a |-> StreamFinally(StreamCatch(a, c, chunk), c),
          c |-> [c EXCEPT !.stream = "failed", !.thrown = Some(chunk),
                          !.endTime = Some(now)]]
  ELSE [a |-> [a EXCEPT !.content = chunk, !.contentBy = id],
        c |-> [c EXCEPT !.accumulatedContent = @ \o chunk,
                        !.received = Append(@, chunk)]]

ChunkNoCancelCheck(a, c, id, chunk) ==
  IF StartsWith(chunk, <<"Error:">>)
    THEN [a |-> StreamFinally(StreamCatch(a, c, chunk), c),
          c |-> [c EXCEPT !.stream = "failed", !.thrown = Some(chunk),
                          !.endTime = Some(now)]]
  ELSE [a |-> [a EXCEPT !.content = c.accumulatedContent \o chunk, !.contentBy = id],
        c |-> [c EXCEPT !.accumulatedContent = @ \o chunk,
                        !.received = Append(@, chunk)]]

ChunkHandler(a, c, id, chunk) ==
  IF c.isCancelled
    THEN [a |-> StreamFinally(a, c), c |-> [c EXCEPT !.stream = "abandoned"]]
  ELSE IF StartsWith(chunk, <<"Error:">>)
    THEN [a |-> StreamFinally(StreamCatch(a, c, chunk), c),
          c |-> [c EXCEPT !.stream = "failed", !.thrown = Some(chunk),
                          !.endTime = Some(now)]]
  ELSE [a |-> [a EXCEPT !.content = c.accumulatedContent \o chunk, !.contentBy = id],
        c |-> [c EXCEPT !.accumulatedContent = @ \o chunk,
                        !.received = Append(@, chunk)]]

\* the loop ends because the generator is exhausted
EndHandler(a, c) ==
  [a |-> StreamFinally(a, c),
   c |-> [c EXCEPT !.stream = "done",
                   !.endTime = IF c.isCancelled THEN Null ELSE Some(now)]]

(* ----------------------- the effect on [topic, mode] ------------------ *)
\* the setters at the head of fetchAllData
FetchResetKeepsConcepts(a) ==
  [a EXCEPT !.isLoading = TRUE, !.error = Null, !.content = <<>>, !.contentBy = 0,
            !.asciiArt = Null, !.artBy = 0, !.generationTime = Null,
            !.isCulturalLoading = TRUE, !.culturalError = Null]

FetchResetKeepsError(a) ==
  [a EXCEPT !.isLoading = TRUE, !.content = <<>>, !.contentBy = 0,
            !.asciiArt = Null, !.artBy = 0, !.generationTime = Null,
            !.isCulturalLoading = TRUE, !.culturalConcepts = <<>>, !.conceptsBy = 0,
            !.culturalError = Null]

FetchReset(a) ==
  [a EXCEPT !.isLoading = TRUE, !.error = Null, !.content = <<>>, !.contentBy = 0,
            !.asciiArt = Null, !.artBy = 0, !.generationTime = Null,
            !.isCulturalLoading = TRUE, !.culturalConcepts = <<>>, !.conceptsBy = 0,
            !.culturalError = Null]

\* the cleanup of the previous run: isCancelled = true.  Every later read of
\* the closure's locals is behind a test of isCancelled, so the model forgets
\* them (accumulatedContent, startTime and the instrumentation) at this point.
Cleanup(cs) ==
  IF cs # <<>> /\ app.currentTopic # <<>> /\ app.mode = "wiki"
    THEN [cs EXCEPT ![Len(cs)] =
            [@ EXCEPT !.isCancelled = TRUE, !.accumulatedContent = <<>>, !.startTime = 0,
                      !.received = <<>>, !.thrown = Null, !.endTime = Null,
                      !.artRes = Null,
                      !.conceptsRes = Null]]
    ELSE cs

\* fetchAllData() up to its first suspension.  With a credential the three
\* requests are in flight when it returns; without one the three operations
\* fail at once and their handlers run before the next task.
StartFetch(a, cs) ==
  LET id == Len(cs) + 1
      c0 == NewCycle(a.currentTopic)
      a0 == FetchReset(a)
      artRes == ConfigOutcome("generateAsciiArt").res
      conRes == ConfigOutcome("getCrossCulturalConcepts").res
      a1 == ArtHandler(a0, c0, id, artRes)
      a2 == ConceptsHandler(a1, c0, id, conRes)
      h == ChunkHandler(a2, c0, id, ConfigOutcome("streamDefinition").yielded[1])
  IN  IF apiKey
        THEN /\ app' = a0
             /\ cycles' = Append(cs, c0)
        ELSE /\ app' = h.a
             /\ cycles' = Append(cs, [h.c EXCEPT !.artAttempt = 0, !.artRes = Some(artRes),
                                                 !.conceptsPending = FALSE,
                                                 !.conceptsRes = Some(conRes)])

RunEffectTopicOnly(a) ==
  IF a.currentTopic = app.currentTopic
    THEN app' = a /\ cycles' = cycles
  ELSE IF a.currentTopic = <<>> \/ a.mode # "wiki"
    THEN app' = a /\ cycles' = Cleanup(cycles)
  ELSE Len(cycles) < MaxCycles /\ StartFetch(a, Cleanup(cycles))

\* React commits the handler's updates, then runs the cleanup and the effect
\* when a dependency changed
RunEffectWithin(a, bound) ==
  IF a.currentTopic = app.currentTopic /\ a.mode = app.mode
    THEN app' = a /\ cycles' = cycles
  ELSE IF a.currentTopic = <<>> \/ a.mode # "wiki"
    THEN app' = a /\ cycles' = Cleanup(cycles)
  ELSE Len(cycles) < bound /\ StartFetch(a, Cleanup(cycles))

RunEffect(a) == RunEffectWithin(a, MaxCycles)

Mounted == cycles # <<>>

\* first render: the effect runs for the initial topic
Mount ==
  /\ ~Mounted
  /\ StartFetch(app, <<>>)
  /\ RenderArt
  /\ UNCHANGED <<apiKey, gw, now, views>>

(* ------------------------------ user events --------------------------- *)
\* handleWordClick and handleSearch share one body
SetTopic(a, word) ==
  LET newTopic == Trim(word)
  IN  IF newTopic # <<>> /\ toLowerCase(newTopic) # toLowerCase(a.currentTopic)
        THEN [a EXCEPT !.currentTopic = newTopic, !.mode = "wiki"]
        ELSE a

\* SearchBar.handleSubmit, then App.handleSearch
handleSearch(query) ==
  /\ Mounted /\ app.mode = "wiki"
  /\ Trim(query) # <<>> /\ ~app.isLoading
  /\ RunEffect(SetTopic(app, Trim(query)))
  /\ RenderArt
  /\ UNCHANGED <<apiKey, gw, now, views>>

handleRandomWithinNoAdvance(i, bound) ==
  /\ Mounted /\ app.mode = "wiki" /\ ~app.isLoading
  /\ LET a == [app EXCEPT !.isLoading = TRUE, !.error = Null, !.content = <<>>,
                          !.contentBy = 0, !.asciiArt = Null, !.artBy = 0,
                          !.mode = "wiki"]
     IN  RunEffectWithin([a EXCEPT !.currentTopic = UNIQUE_WORDS[i]], bound)
  /\ RenderArt
  /\ UNCHANGED <<apiKey, gw, now, views>>

handleRandomWithinNoWrap(i, bound) ==
  /\ Mounted /\ app.mode = "wiki" /\ ~app.isLoading
  /\ LET a == [app EXCEPT !.isLoading = TRUE, !.error = Null, !.content = <<>>,
                          !.contentBy = 0, !.asciiArt = Null, !.artBy = 0,
                          !.mode = "wiki"]
         randomWord == UNIQUE_WORDS[i]
         nextIndex == IF i < Len(UNIQUE_WORDS) THEN i + 1 ELSE i
     IN  RunEffectWithin([a EXCEPT !.currentTopic =
                      IF toLowerCase(randomWord) = toLowerCase(app.currentTopic)
                        THEN UNIQUE_WORDS[nextIndex] ELSE randomWord],
                     bound)
  /\ RenderArt
  /\ UNCHANGED <<apiKey, gw, now, views>>

\* the Random button (disabled while isLoading); i is the drawn index
handleRandomWithin(i, bound) ==
  /\ Mounted /\ app.mode = "wiki" /\ ~app.isLoading
  /\ LET a == [app EXCEPT !.isLoading = TRUE, !.error = Null, !.content = <<>>,
                          !.contentBy = 0, !.asciiArt = Null, !.artBy = 0,
                          !.mode = "wiki"]
         randomWord == UNIQUE_WORDS[i]
         nextIndex == (i % Len(UNIQUE_WORDS)) + 1
     IN  RunEffectWithin([a EXCEPT !.currentTopic =
                      IF toLowerCase(randomWord) = toLowerCase(app.currentTopic)
                        THEN UNIQUE_WORDS[nextIndex] ELSE randomWord],
                     bound)
  /\ RenderArt
  /\ UNCHANGED <<apiKey, gw, now, views>>

handleRandom(i) == handleRandomWithin(i, MaxCycles)

Punctuation == { ".", ",", "!", "?", ";", ":", "(", ")", "\"", "'" }

IsPunct(c) == c \in Punctuation
IsWord(c) == ~IsWs(c)
NotPunct(c) == ~IsPunct(c)

\* content.split(/(\s+)/): the maximal runs of non-whitespace
Words(s) ==
  { SubSeq(s, i, j) : <<i, j>> \in
      { p \in (1..Len(s)) \X (1..Len(s)) :
          /\ p[1] <= p[2]
          /\ \A k \in p[1]..p[2] : IsWord(s[k])
          /\ (p[1] = 1 \/ IsWs(s[p[1] - 1]))
          /\ (p[2] = Len(s) \/ IsWs(s[p[2] + 1])) } }

\* word.replace(/[.,!?;:()"']/g, '')
CleanWord(word) == SelectSeq(word, NotPunct)

\* a word button of InteractiveContent, shown once the definition has settled
handleWordClick(word) ==
  /\ Mounted /\ app.mode = "wiki"
  /\ Len(app.content) > 0 /\ app.error = Null /\ ~app.isLoading
  /\ word \in Words(app.content)
  /\ CleanWord(word) # <<>>
  /\ RunEffect(SetTopic(app, CleanWord(word)))
  /\ RenderArt
  /\ UNCHANGED <<apiKey, gw, now, views>>

\* a concept button of CulturalConceptsDisplay
onConceptClick(k) ==
  /\ Mounted /\ app.mode = "wiki"
  /\ ~app.isCulturalLoading /\ app.culturalError = Null
  /\ k \in 1..Len(app.culturalConcepts)
  /\ RunEffect(SetTopic(app, Concept(app.culturalConcepts[k]).term))
  /\ RenderArt
  /\ UNCHANGED <<apiKey, gw, now, views>>

\* the three mode buttons.  The main element renders one view per mode, so a
\* change of mode unmounts PhonosemanticMiner or ScriptWriter and the next
\* mount starts from useState's initial values; what a request of the
\* unmounted instance does when it settles reaches no state.
setMode(m) ==
  /\ Mounted
  /\ RunEffect([app EXCEPT !.mode = m])
  /\ views' = IF m = app.mode THEN views ELSE ViewsInit
  /\ RenderArt
  /\ UNCHANGED <<apiKey, gw, now>>

\* what CulturalConceptsDisplay renders for the view state
CulturalSection(a) ==
  IF a.isCulturalLoading THEN "loading"
  ELSE IF a.culturalError # Null /\ a.culturalError[1] # <<>> THEN "nothing"
  ELSE IF Len(a.culturalConcepts) = 0 THEN "nothing"
  ELSE "list"

(* ----------------------------- remote events -------------------------- *)
\* instrumentation: the outcome a handler of a live cycle was given
Delivered(c, res) == IF c.isCancelled THEN Null ELSE Some(res)

ArtRespond(i, r) ==
  /\ i \in 1..Len(cycles)
  /\ cycles[i].artAttempt > 0
  /\ LET c == cycles[i]
         o == generateAsciiArt(c.artAttempt, r)
     IN  IF o.done
           THEN /\ app' = ArtHandler(app, c, i, o.res)
                /\ cycles' = [cycles EXCEPT ![i].artAttempt = 0,
                                            ![i].artRes = Delivered(c, o.res)]
           ELSE /\ app' = app
                /\ cycles' = [cycles EXCEPT ![i].artAttempt = @ + 1]
  /\ RenderArt
  /\ UNCHANGED <<apiKey, gw, now, views>>

ConceptsRespond(i, r) ==
  /\ i \in 1..Len(cycles)
  /\ cycles[i].conceptsPending
  /\ LET res == getCrossCulturalConcepts(r)
     IN  /\ app' = ConceptsHandler(app, cycles[i], i, res)
         /\ cycles' = [cycles EXCEPT ![i].conceptsPending = FALSE,
                                     ![i].conceptsRes = Delivered(cycles[i], res)]
  /\ RenderArt
  /\ UNCHANGED <<apiKey, gw, now, views>>

\* the remote stream delivers a chunk; streamDefinition yields its text if any
StreamChunk(i, text) ==
  /\ i \in 1..Len(cycles)
  /\ cycles[i].stream = "open"
  /\ Len(cycles[i].received) < MaxChunks
  /\ text # <<>>
  /\ LET h == ChunkHandler(app, cycles[i], i, text)
     IN  app' = h.a /\ cycles' = [cycles EXCEPT ![i] = h.c]
  /\ RenderArt
  /\ UNCHANGED <<apiKey, gw, now, views>>

StreamEnd(i) ==
  /\ i \in 1..Len(cycles)
  /\ cycles[i].stream = "open"
  /\ LET h == EndHandler(app, cycles[i])
     IN  app' = h.a /\ cycles' = [cycles EXCEPT ![i] = h.c]
  /\ RenderArt
  /\ UNCHANGED <<apiKey, gw, now, views>>

\* the remote stream throws; streamDefinition yields its error fragment
StreamFail(i, f) ==
  /\ i \in 1..Len(cycles)
  /\ cycles[i].stream = "open"
  /\ LET h == ChunkHandler(app, cycles[i], i, StreamErrorFragment(cycles[i].topic, f))
     IN  app' = h.a /\ cycles' = [cycles EXCEPT ![i] = h.c]
  /\ RenderArt
  /\ UNCHANGED <<apiKey, gw, now, views>>

\* performance.now() advances
Tick ==
  /\ now < MaxTime
  /\ now' = now + 1
  /\ UNCHANGED <<apiKey, gw, app, cycles, views, display>>

(* ------------------- events of the miner and the writer --------------- *)
\* FilterBar.handleSubmit, then PhonosemanticMiner.handleSearch up to its
\* await; without a credential the operation rejects at once and the catch
\* and finally blocks run before the next task
MinerSubmit ==
  /\ Mounted /\ app.mode = "miner"
  /\ ~views.miner.isLoading
  /\ LET v == [views.miner EXCEPT !.isLoading = TRUE, !.error = Null, !.results = <<>>,
                                  !.pending = @ + 1]
     IN  views' = [views EXCEPT !.miner =
                     IF apiKey THEN v
                     ELSE MinerSettle(v, ConfigOutcome("performPhonosemanticSearch").res)]
  /\ UNCHANGED <<apiKey, gw, app, cycles, now, display>>

MinerRespond(r) ==
  /\ Mounted /\ app.mode = "miner"
  /\ views.miner.pending > 0
  /\ views' = [views EXCEPT !.miner = MinerSettle(@, performPhonosemanticSearch(r))]
  /\ UNCHANGED <<apiKey, gw, app, cycles, now, display>>

\* the inputs of ScriptWriter, disabled while isLoading
setWord(w) ==
  /\ Mounted /\ app.mode = "writer"
  /\ ~views.writer.isLoading
  /\ views' = [views EXCEPT !.writer.word = w]
  /\ UNCHANGED <<apiKey, gw, app, cycles, now, display>>

setLanguage(l) ==
  /\ Mounted /\ app.mode = "writer"
  /\ ~views.writer.isLoading
  /\ views' = [views EXCEPT !.writer.language = l]
  /\ UNCHANGED <<apiKey, gw, app, cycles, now, display>>

WriterSubmitUnguarded ==
  /\ Mounted /\ app.mode = "writer"
  /\ LET w == views.writer
         args == [word |-> Trim(w.word), language |-> Trim(w.language)]
         v == [w EXCEPT !.isLoading = TRUE, !.error = Null, !.result = Null,
                        !.call = Some(args), !.pending = @ + 1]
     IN  views' =
           IF Trim(w.word) = <<>> \/ Trim(w.language) = <<>> THEN views
           ELSE [views EXCEPT !.writer =
                   IF apiKey THEN v
                   ELSE WriterSettle(v, ConfigOutcome("getScriptForWord").res)]
  /\ UNCHANGED <<apiKey, gw, app, cycles, now, display>>

\* ScriptWriter.handleSearch up to its await
WriterSubmit ==
  /\ Mounted /\ app.mode = "writer"
  /\ LET w == views.writer
         args == [word |-> Trim(w.word), language |-> Trim(w.language)]
         v == [w EXCEPT !.isLoading = TRUE, !.error = Null, !.result = Null,
                        !.call = Some(args), !.pending = @ + 1]
     IN  views' =
           IF Trim(w.word) = <<>> \/ Trim(w.language) = <<>> \/ w.isLoading THEN views
           ELSE [views EXCEPT !.writer =
                   IF apiKey THEN v
                   ELSE WriterSettle(v, ConfigOutcome("getScriptForWord").res)]
  /\ UNCHANGED <<apiKey, gw, app, cycles, now, display>>

WriterRespond(r) ==
  /\ Mounted /\ app.mode = "writer"
  /\ views.writer.call # Null
  /\ LET args == views.writer.call[1]
     IN  views' = [views EXCEPT !.writer =
                     WriterSettle(@, getScriptForWord(args.word, args.language, r))]
  /\ UNCHANGED <<apiKey, gw, app, cycles, now, display>>

(* ---------------------------- specifications -------------------------- *)
Init ==
  /\ apiKey \in BOOLEAN
  /\ gw = GwIdle
  /\ app = AppInit
  /\ cycles = <<>>
  /\ now = 0
  /\ views = ViewsInit
  /\ display = DisplayInit

Next ==
  \/ Mount
  \/ \E q \in Queries : handleSearch(q)
  \/ \E i \in 1..Len(UNIQUE_WORDS) : handleRandom(i)
  \/ \E w \in Words(app.content) : handleWordClick(w)
  \/ \E k \in 1..Len(app.culturalConcepts) : onConceptClick(k)
  \/ \E m \in Modes : setMode(m)
  \/ \E i \in 1..Len(cycles) : \E r \in CycleArtResponses : ArtRespond(i, r)
  \/ \E i \in 1..Len(cycles) : \E r \in CycleConceptResponses : ConceptsRespond(i, r)
  \/ \E i \in 1..Len(cycles) : \E t \in CycleChunkTexts : StreamChunk(i, t)
  \/ \E i \in 1..Len(cycles) : StreamEnd(i)
  \/ \E i \in 1..Len(cycles) : \E f \in RemoteFailures : StreamFail(i, f)
  \/ Tick

Spec == Init /\ [][Next]_vars

GwSpec == Init /\ [][GwNext]_vars

\* the three views with their requests, the topic staying as it is
ViewNext ==
  \/ Mount
  \/ \E m \in Modes : setMode(m)
  \/ \E i \in 1..Len(cycles) : \E r \in CycleArtResponses : ArtRespond(i, r)
  \/ \E i \in 1..Len(cycles) : \E r \in CycleConceptResponses : ConceptsRespond(i, r)
  \/ \E i \in 1..Len(cycles) : \E t \in CycleChunkTexts : StreamChunk(i, t)
  \/ \E i \in 1..Len(cycles) : StreamEnd(i)
  \/ \E i \in 1..Len(cycles) : \E f \in RemoteFailures : StreamFail(i, f)
  \/ MinerSubmit
  \/ \E r \in MinerResponses : MinerRespond(r)
  \/ \E w \in WriterWords : setWord(w)
  \/ \E l \in WriterLanguages : setLanguage(l)
  \/ WriterSubmit
  \/ \E r \in WriterResponses : WriterRespond(r)

ViewSpec == Init /\ [][ViewNext]_vars

\* the wiki view when a random pick may still start a cycle after MaxCycles
\* cycles have run, so that a pick can follow a search or another pick; the
\* definition stream ends or fails without fragments, and handleWordClick is
\* reached through the concept buttons
PickNext ==
  \/ Mount
  \/ \E q \in Queries : handleSearch(q)
  \/ \E i \in 1..Len(UNIQUE_WORDS) : handleRandomWithin(i, MaxPickCycles)
  \/ \E k \in 1..Len(app.culturalConcepts) : onConceptClick(k)
  \/ \E m \in Modes : setMode(m)
  \/ \E i \in 1..Len(cycles) : \E r \in CycleArtResponses : ArtRespond(i, r)
  \/ \E i \in 1..Len(cycles) : \E r \in CycleConceptResponses : ConceptsRespond(i, r)
  \/ \E i \in 1..Len(cycles) : StreamEnd(i)
  \/ \E i \in 1..Len(cycles) : \E f \in RemoteFailures : StreamFail(i, f)

PickSpec == Init /\ [][PickNext]_vars

\* the art display under the events that change the art of the wiki view
ArtNext ==
  \/ Mount
  \/ \E i \in 1..Len(UNIQUE_WORDS) : handleRandom(i)
  \/ \E m \in Modes : setMode(m)
  \/ \E i \in 1..Len(cycles) : \E r \in CycleArtResponses : ArtRespond(i, r)
  \/ \E i \in 1..Len(cycles) : StreamEnd(i)
  \/ IntervalTick

ArtSpec == Init /\ [][ArtNext]_vars

\* a live interval timer keeps firing
ArtLiveSpec == ArtSpec /\ WF_vars(IntervalTick)

(* ============================== properties ============================ *)
RECURSIVE Concat(_)
Concat(ss) == IF ss = <<>> THEN <<>> ELSE Head(ss) \o Concat(Tail(ss))

Last(s) == s[Len(s)]

\* C1: whatever definition content is displayed was stored by a fetch cycle
\* of the current topic: no fragment of a stream for another topic is shown,
\* however fragment arrivals and topic changes interleave.
C1_NoFragmentAcrossTopics ==
  /\ app.contentBy = 0 => app.content = <<>>
  /\ app.contentBy # 0 => cycles[app.contentBy].topic = app.currentTopic

\* topic A was superseded mid-stream, a fragment of A arrived afterwards and
\* was dropped, and content of the new topic is on display
C1_Witness ==
  \E i \in 1..Len(cycles) :
    /\ cycles[i].isCancelled
    /\ cycles[i].stream = "abandoned"
    /\ cycles[i].topic # app.currentTopic
    /\ app.content # <<>>

\* C2: without a credential every gateway operation ends at once with its
\* configuration error (streamDefinition: exactly one error fragment) and
\* has issued no remote request.
C2_NoCredentialNoRequest ==
  (~apiKey /\ gw.pc # "idle") =>
    /\ gw.pc = "done"
    /\ gw.requests = 0
    /\ gw.resps = <<>>
    /\ gw.op # "streamDefinition" =>
         ~gw.res.ok /\ gw.res.message = ConfigMessage /\ gw.yielded = <<>>
    /\ gw.op = "streamDefinition" =>
         Len(gw.yielded) = 1 /\ StartsWith(gw.yielded[1], <<"Error:">>) /\ gw.res.ok

C2_Witness == ~apiKey /\ gw.pc = "done" /\ gw.op = "getScriptForWord"

\* C3 (as claimed): when the first attempt of generateAsciiArt fails, exactly
\* one further request is made, and the operation settles on the second
\* response.
C3_OneRetry ==
  (gw.op = "generateAsciiArt" /\ gw.pc = "done" /\ gw.resps # <<>>
     /\ ~ArtTry(gw.resps[1]).ok) =>
    /\ gw.requests = 2
    /\ Len(gw.resps) = 2
    /\ ArtTry(gw.resps[2]).ok => gw.res = ArtTry(gw.resps[2])
    /\ ~ArtTry(gw.resps[2]).ok => ~gw.res.ok

\* C4: generateAsciiArt returns exactly when the unwrapped payload starts with
\* "{", ends with "}", parses, and has a string art field that is non-empty
\* after trimming; then the result carries that art.  Otherwise it raises.
ArtPayloadValid(r) ==
  /\ ~r.fail
  /\ LET payload == UnwrapFence(r.text)
     IN  /\ payload # <<>>
         /\ Head(payload) = "{" /\ Last(payload) = "}"
         /\ JSONParse(payload).ok
         /\ Prop(JSONParse(payload), "art").t = "string"
         /\ Trim(Prop(JSONParse(payload), "art").v) # <<>>

C4_ArtNeverEmpty ==
  (gw.op = "generateAsciiArt" /\ gw.pc = "done" /\ gw.resps # <<>>) =>
    /\ gw.res.ok <=> ArtPayloadValid(Last(gw.resps))
    /\ gw.res.ok =>
         /\ gw.res.value[1].art = Prop(JSONParse(UnwrapFence(Last(gw.resps).text)), "art").v
         /\ Trim(gw.res.value[1].art) # <<>>

\* a payload whose art is only whitespace was received and refused
C4_Witness ==
  /\ gw.op = "generateAsciiArt" /\ gw.pc = "done" /\ gw.resps # <<>>
  /\ ~Last(gw.resps).fail
  /\ UnwrapFence(Last(gw.resps).text) = <<"{", "art:_", "}">>
  /\ ~gw.res.ok

\* C5: a superseded fetch cycle changes no view state when its art request,
\* its concepts request or its definition stream later succeeds or fails,
\* and at most one fetch cycle (the newest) is not superseded.
AtMostOneLive == \A i \in 1..Len(cycles) : i < Len(cycles) => cycles[i].isCancelled

StaleChangesNothing ==
  \A i \in 1..Len(cycles) :
    (cycles[i].isCancelled /\ cycles'[i] # cycles[i]) => app' = app

C5_SupersededCycleIsInert == []AtMostOneLive /\ [][StaleChangesNothing]_vars

\* a superseded cycle whose three requests have all settled, the stream by a
\* fragment that arrived after the supersession, while a newer cycle runs
C5_Witness ==
  \E i \in 1..Len(cycles) :
    /\ i < Len(cycles)
    /\ cycles[i].isCancelled
    /\ cycles[i].stream = "abandoned"
    /\ cycles[i].artAttempt = 0
    /\ ~cycles[i].conceptsPending

\* C6: the start of a fetch cycle clears content, art, concepts and both
\* error messages before any of its results is stored, so every result on
\* display was stored by the newest cycle, for the current topic.
SlicesCleared(a) ==
  /\ a.content = <<>> /\ a.asciiArt = Null /\ a.culturalConcepts = <<>>
  /\ a.error = Null /\ a.culturalError = Null

FromNewestCycle(by) ==
  by # 0 => by = Len(cycles) /\ cycles[by].topic = app.currentTopic

NothingStale ==
  /\ FromNewestCycle(app.contentBy)
  /\ FromNewestCycle(app.artBy)
  /\ FromNewestCycle(app.conceptsBy)
  /\ app.artBy = 0 => app.asciiArt = Null
  /\ app.conceptsBy = 0 => app.culturalConcepts = <<>>

StartClears == (Len(cycles') > Len(cycles) /\ apiKey) => SlicesCleared(app')

C6_LoadingClearsResults == []NothingStale /\ [][StartClears]_vars

\* a second cycle runs with its slices still empty after the first cycle had
\* content, art and concepts on display
C6_Witness ==
  /\ Len(cycles) >= 2
  /\ Live = Len(cycles)
  /\ cycles[1].topic # app.currentTopic
  /\ app.culturalConcepts = <<>> /\ app.asciiArt = Null /\ app.content = <<>>
  /\ cycles[Live].conceptsPending

\* C7: while the live definition stream has not failed, the content on
\* display is the concatenation, in receipt order, of the fragments received.
C7_ContentIsConcatenation ==
  (Live # 0 /\ cycles[Live].stream \in {"open", "done"}) =>
    app.content = Concat(cycles[Live].received)

C7_Witness ==
  /\ Live # 0
  /\ cycles[Live].stream = "open"
  /\ Len(cycles[Live].received) >= 2
  /\ cycles[Live].received[1] # cycles[Live].received[2]
  /\ app.content = cycles[Live].received[1] \o cycles[Live].received[2]

\* C8: the three requests of a cycle are in flight together from its start;
\* the art handler writes only asciiArt, the concepts handler only
\* culturalConcepts, culturalError and isCulturalLoading, the stream handler
\* only content, error, isLoading and generationTime; and once all three
\* have settled the view state is a function of their outcomes alone.
AllInFlight(c) == c.artAttempt = 1 /\ c.conceptsPending /\ c.stream = "open"

IssuedTogether ==
  (Len(cycles') > Len(cycles) /\ apiKey) => AllInFlight(cycles'[Len(cycles')])

OwnSliceOnly ==
  \A i \in 1..Len(cycles) :
    (Len(cycles') = Len(cycles) /\ cycles'[i].isCancelled = cycles[i].isCancelled) =>
      /\ cycles'[i].artAttempt # cycles[i].artAttempt =>
           app' = [app EXCEPT !.asciiArt = app'.asciiArt, !.artBy = app'.artBy]
      /\ cycles'[i].conceptsPending # cycles[i].conceptsPending =>
           app' = [app EXCEPT !.culturalConcepts = app'.culturalConcepts,
                              !.conceptsBy = app'.conceptsBy,
                              !.culturalError = app'.culturalError,
                              !.isCulturalLoading = app'.isCulturalLoading]
      /\ (cycles'[i].stream # cycles[i].stream
            \/ cycles'[i].received # cycles[i].received) =>
           app' = [app EXCEPT !.content = app'.content, !.contentBy = app'.contentBy,
                              !.error = app'.error, !.isLoading = app'.isLoading,
                              !.generationTime = app'.generationTime]

Settled(c) == c.artAttempt = 0 /\ ~c.conceptsPending /\ c.stream # "open"

SettledView(c) ==
  /\ app.asciiArt = Some(IF c.artRes[1].ok THEN c.artRes[1].value[1]
                         ELSE createFallbackArt(c.topic))
  /\ app.culturalConcepts = (IF c.conceptsRes[1].ok THEN c.conceptsRes[1].value[1] ELSE <<>>)
  /\ app.culturalError = (IF c.conceptsRes[1].ok THEN Null ELSE Some(c.conceptsRes[1].message))
  /\ ~app.isCulturalLoading
  /\ app.content = (IF c.stream = "done" THEN Concat(c.received) ELSE <<>>)
  /\ app.error = c.thrown
  /\ c.stream = "done" => c.thrown = Null
  /\ ~app.isLoading
  /\ app.generationTime = Some(c.endTime[1] - c.startTime)

OrderIndependent == (Live # 0 /\ Settled(cycles[Live])) => SettledView(cycles[Live])

C8_IndependentRequests ==
  []OrderIndependent /\ [][IssuedTogether /\ OwnSliceOnly]_vars

\* all three settled with a credential: art refused, concepts stored, the
\* stream complete with content
C8_Witness ==
  /\ apiKey /\ Live # 0 /\ Settled(cycles[Live])
  /\ ~cycles[Live].artRes[1].ok
  /\ cycles[Live].conceptsRes[1].ok
  /\ cycles[Live].stream = "done" /\ app.content # <<>>

\* C9: until a new fetch cycle starts, each concern leaves loading at most
\* once, for success or for error, and then stays as it is.
DefPhase(a) ==
  IF a.isLoading THEN "loading" ELSE IF a.error # Null THEN "error" ELSE "success"

ConceptsPhase(a) ==
  IF a.isCulturalLoading THEN "loading"
  ELSE IF a.culturalError # Null THEN "error" ELSE "success"

PhasesSettleOnce ==
  Len(cycles') = Len(cycles) =>
    /\ DefPhase(app) # "loading" =>
         /\ DefPhase(app') = DefPhase(app)
         /\ app'.content = app.content /\ app'.error = app.error
    /\ ConceptsPhase(app) # "loading" =>
         /\ ConceptsPhase(app') = ConceptsPhase(app)
         /\ app'.culturalConcepts = app.culturalConcepts
         /\ app'.culturalError = app.culturalError
    /\ app.asciiArt # Null => app'.asciiArt = app.asciiArt

C9_EachConcernSettlesOnce == [][PhasesSettleOnce]_vars

\* the three concerns of one cycle ended differently: definition in error,
\* concepts in success, art present
C9_Witness ==
  /\ apiKey /\ Live # 0
  /\ DefPhase(app) = "error"
  /\ ConceptsPhase(app) = "success" /\ app.culturalConcepts # <<>>
  /\ app.asciiArt # Null

\* C10 (as claimed): every JSON-returning operation returns, for a valid
\* payload wrapped in a fenced code block, what it returns for the bare
\* payload.
C10_FencedEqualsBare ==
  (gw.pc = "done" /\ gw.op \in JsonOps /\ gw.resps # <<>> /\ ~Last(gw.resps).fail) =>
    \A p \in Payloads :
      (Last(gw.resps).text \in Fencings(p)
         /\ GwOutcome(gw.op, gw.args, gw.attempt, RespText(p)).res.ok) =>
        gw.res = GwOutcome(gw.op, gw.args, gw.attempt, RespText(p)).res

\* C11: in generateAsciiArt a response made of an opening fence (with or
\* without the json tag), a payload and a closing fence is parsed as exactly
\* that payload, fences and surrounding whitespace removed; a response
\* without fences is parsed as its trimmed text.  The result is the one the
\* parse of that string gives.
C11_ArtFenceUnwrapped ==
  (gw.op = "generateAsciiArt" /\ gw.pc = "done" /\ gw.resps # <<>> /\ ~Last(gw.resps).fail) =>
    LET text == Last(gw.resps).text
    IN  /\ \A p \in Payloads :
              (p # <<>> /\ text \in Fencings(p)) =>
                /\ UnwrapFence(text) = p
                /\ gw.res.ok <=> (JSONParse(p).ok /\ Prop(JSONParse(p), "art").t = "string"
                                    /\ Trim(Prop(JSONParse(p), "art").v) # <<>>)
                /\ gw.res.ok => gw.res.value[1].art = Prop(JSONParse(p), "art").v
        /\ (\A p \in Payloads : text \notin Fencings(p)) =>
              /\ UnwrapFence(text) = Trim(text)
              /\ gw.res.ok => gw.res.value[1].art = Prop(JSONParse(Trim(text)), "art").v

\* a padded, json-tagged fenced art payload was received and its art returned
C11_Witness ==
  /\ gw.op = "generateAsciiArt" /\ gw.pc = "done" /\ gw.resps # <<>>
  /\ ~Last(gw.resps).fail
  /\ Last(gw.resps).text = FencePadded(<<"{", "art:X", "}">>)
  /\ gw.res.ok /\ gw.res.value[1].art = <<"X">>

\* C12: performPhonosemanticSearch raises when the parsed payload has no
\* results field or one that is not an array, and returns the results array
\* as it is, the empty one included.
C12_ResultsArrayRequired ==
  (gw.op = "performPhonosemanticSearch" /\ gw.pc = "done" /\ gw.resps # <<>>
     /\ ~Last(gw.resps).fail /\ JSONParse(UnwrapFence(Last(gw.resps).text)).ok) =>
    LET data == JSONParse(UnwrapFence(Last(gw.resps).text))
        results == Prop(data, "results")
    IN  /\ results.t # "array" =>
              /\ ~gw.res.ok
              /\ gw.res.message = <<"Could not perform phonosemantic search: ",
                                     "Invalid response format from API.">>
        /\ results.t = "array" => gw.res.ok /\ gw.res.value[1] = results.v

\* the remote model reported no results and the empty list was returned
C12_Witness ==
  /\ gw.op = "performPhonosemanticSearch" /\ gw.pc = "done" /\ gw.resps # <<>>
  /\ ~Last(gw.resps).fail
  /\ UnwrapFence(Last(gw.resps).text) = <<"{", "results:[]", "}">>
  /\ gw.res.ok /\ gw.res.value[1] = <<>>

\* punctuation removed from the end, from both ends of a word
RECURSIVE StripTrailing(_)
StripTrailing(w) ==
  IF w # <<>> /\ IsPunct(w[Len(w)]) THEN StripTrailing(SubSeq(w, 1, Len(w) - 1)) ELSE w

RECURSIVE StripLeading(_)
StripLeading(w) == IF w # <<>> /\ IsPunct(Head(w)) THEN StripLeading(Tail(w)) ELSE w

StripSurrounding(w) == StripLeading(StripTrailing(w))

\* C13 (as claimed): a click on a displayed word makes the word with its
\* trailing punctuation removed the new topic and switches to wiki mode; when
\* that cleaned word equals the current topic ignoring case the click changes
\* nothing and starts no fetch.
C13_WordClickStripsTrailing ==
  [][\A w \in Words(app.content) :
       handleWordClick(w) =>
         IF toLowerCase(StripTrailing(w)) = toLowerCase(app.currentTopic)
           THEN UNCHANGED vars
           ELSE /\ app'.currentTopic = StripTrailing(w)
                /\ app'.mode = "wiki"
                /\ Len(cycles') = Len(cycles) + 1]_vars

\* C14 (as claimed): a click on a cultural concept makes its term with the
\* surrounding punctuation removed, characters inside kept, the new topic,
\* as for a clicked word of the definition.
C14_ConceptClickStripsPunctuation ==
  [][\A k \in 1..Len(app.culturalConcepts) :
       onConceptClick(k) =>
         LET term == StripSurrounding(Trim(Concept(app.culturalConcepts[k]).term))
         IN  IF toLowerCase(term) = toLowerCase(app.currentTopic)
               THEN UNCHANGED vars
               ELSE app'.currentTopic = term /\ app'.mode = "wiki"]_vars

\* C15: when the remote stream fails, streamDefinition yields one
\* error-prefixed fragment after the fragments it already produced and then
\* raises; without a credential it yields one error-prefixed fragment and
\* ends normally, so the way the sequence ends tells the two cases apart.
StreamSettled == gw.op = "streamDefinition" /\ gw.pc = "done"

StreamEndings ==
  /\ (StreamSettled /\ ~apiKey) =>
       /\ gw.yielded = <<ConfigFragment>>
       /\ StartsWith(gw.yielded[1], <<"Error:">>)
       /\ gw.res.ok
  /\ (StreamSettled /\ gw.resps # <<>>) =>
       /\ gw.yielded # <<>>
       /\ StartsWith(Last(gw.yielded), <<"Error:">>)
       /\ ~gw.res.ok
       /\ gw.res.message = MessageOf(Last(gw.resps), UnknownError)
  /\ (StreamSettled /\ apiKey /\ gw.resps = <<>>) => gw.res.ok

FailureAppendsOneFragment ==
  (gw.op = "streamDefinition" /\ gw.pc = "await" /\ gw'.pc = "done" /\ gw'.resps # <<>>) =>
    /\ Len(gw'.yielded) = Len(gw.yielded) + 1
    /\ SubSeq(gw'.yielded, 1, Len(gw.yielded)) = gw.yielded

C15_StreamFailureShape == []StreamEndings /\ [][FailureAppendsOneFragment]_vars

\* the remote stream failed after one fragment had been yielded
C15_Witness ==
  /\ StreamSettled /\ gw.resps # <<>>
  /\ Len(gw.yielded) = 2 /\ gw.yielded[1] = <<"a">>
  /\ ~gw.res.ok

\* C16: when the live definition stream delivers a fragment that begins with
\* "Error:" (the missing-credential fragment included), the definition
\* concern ends in error: the error message is that fragment, the content is
\* empty, isLoading is false, and the stream takes no later fragment.
DefinitionInError(a, fragment) ==
  /\ a.error = Some(fragment)
  /\ a.content = <<>>
  /\ ~a.isLoading

ErrorFragmentEndsStream ==
  /\ \A i \in 1..Len(cycles) : \A t \in CycleChunkTexts :
       (/\ Len(cycles') = Len(cycles) /\ cycles'[i].stream # cycles[i].stream
        /\ ~cycles[i].isCancelled /\ StartsWith(t, <<"Error:">>)
        /\ StreamChunk(i, t)) =>
         DefinitionInError(app', t) /\ cycles'[i].stream = "failed"
  /\ \A i \in 1..Len(cycles) : \A f \in RemoteFailures :
       (/\ Len(cycles') = Len(cycles) /\ cycles'[i].stream # cycles[i].stream
        /\ ~cycles[i].isCancelled
        /\ StreamFail(i, f)) =>
         /\ DefinitionInError(app', StreamErrorFragment(cycles[i].topic, f))
         /\ cycles'[i].stream = "failed"
  /\ (Len(cycles') > Len(cycles) /\ ~apiKey) =>
       DefinitionInError(app', ConfigFragment) /\ cycles'[Len(cycles')].stream = "failed"

FailedStreamStaysFailed ==
  \A i \in 1..Len(cycles) :
    (cycles[i].stream = "failed" /\ ~cycles[i].isCancelled /\ Len(cycles') = Len(cycles)) =>
      /\ cycles'[i].stream = "failed"
      /\ app'.content = <<>> /\ app'.error = app.error /\ ~app'.isLoading

ErrorStateShown ==
  (Live # 0 /\ cycles[Live].stream = "failed") =>
    /\ app.error # Null /\ StartsWith(app.error[1], <<"Error:">>)
    /\ app.content = <<>> /\ ~app.isLoading

C16_ErrorFragmentIsErrorState ==
  []ErrorStateShown /\ [][ErrorFragmentEndsStream /\ FailedStreamStaysFailed]_vars

\* with a credential, content had been displayed when the remote stream
\* failed; the error replaced it
C16_Witness ==
  /\ apiKey /\ Live # 0
  /\ cycles[Live].stream = "failed"
  /\ cycles[Live].received # <<>>
  /\ app.content = <<>> /\ app.error # Null /\ ~app.isLoading

\* the message carries a non-empty prefix in front of the underlying text
PrefixedBy(message, underlying) ==
  Len(message) > Len(underlying) /\ EndsWith(message, underlying)

\* C17 (as claimed): each of the six gateway operations, when its remote call
\* fails, raises an error whose message is an operation-specific prefix
\* followed by the underlying failure message, or by a fixed unknown-error
\* text when the thrown value is not an error.
C17_FailurePrefixed ==
  (gw.pc = "done" /\ gw.resps # <<>> /\ Last(gw.resps).fail) =>
    /\ ~gw.res.ok
    /\ \/ PrefixedBy(gw.res.message, MessageOf(Last(gw.resps), UnknownError))
       \/ PrefixedBy(gw.res.message, MessageOf(Last(gw.resps), <<"Unknown error occurred">>))

\* C19: when generateAsciiArt fails for the live cycle, the art becomes the
\* locally drawn bordered box around the current topic and nothing else of
\* the view changes: no error message, content or loading flag is touched.
BorderedBox(art, topic) ==
  LET border == <<"+">> \o [i \in 1..(Len(topic) + 2) |-> "-"] \o <<"+">>
  IN  art = border \o <<"\n", "|", " ">> \o topic \o <<" ", "|", "\n">> \o border

ArtFailureOnlyDrawsBox ==
  \A i \in 1..Len(cycles) : \A r \in CycleArtResponses :
    (/\ Len(cycles') = Len(cycles) /\ cycles'[i].artAttempt # cycles[i].artAttempt
     /\ ~cycles[i].isCancelled
     /\ ArtRespond(i, r)
     /\ generateAsciiArt(cycles[i].artAttempt, r).done
     /\ ~generateAsciiArt(cycles[i].artAttempt, r).res.ok) =>
      /\ app'.asciiArt # Null
      /\ BorderedBox(app'.asciiArt[1].art, app.currentTopic)
      /\ app' = [app EXCEPT !.asciiArt = app'.asciiArt, !.artBy = app'.artBy]

FailedArtShowsBox ==
  (Live # 0 /\ cycles[Live].artRes # Null /\ ~cycles[Live].artRes[1].ok) =>
    /\ app.asciiArt # Null
    /\ BorderedBox(app.asciiArt[1].art, app.currentTopic)

C19_ArtFailureFallsBack == []FailedArtShowsBox /\ [][ArtFailureOnlyDrawsBox]_vars

\* the art request failed with a credential configured while the definition
\* is on display without any error
C19_Witness ==
  /\ apiKey /\ Live # 0
  /\ cycles[Live].artRes # Null /\ ~cycles[Live].artRes[1].ok
  /\ app.asciiArt # Null /\ BorderedBox(app.asciiArt[1].art, app.currentTopic)
  /\ app.error = Null /\ app.content # <<>> /\ ~app.isLoading

\* C20: when getCrossCulturalConcepts fails for the live cycle, only the
\* cultural error and the cultural loading flag change, and the cultural
\* section renders nothing: the definition error, the content and the art
\* stay as they are.
ConceptsFailureOnlyHides ==
  \A i \in 1..Len(cycles) : \A r \in CycleConceptResponses :
    (/\ Len(cycles') = Len(cycles) /\ cycles'[i].conceptsPending # cycles[i].conceptsPending
     /\ ~cycles[i].isCancelled
     /\ ConceptsRespond(i, r)
     /\ ~getCrossCulturalConcepts(r).ok) =>
      /\ app' = [app EXCEPT !.culturalError = Some(getCrossCulturalConcepts(r).message),
                            !.isCulturalLoading = FALSE]
      /\ CulturalSection(app') = "nothing"

FailedConceptsHidden ==
  (Live # 0 /\ cycles[Live].conceptsRes # Null /\ ~cycles[Live].conceptsRes[1].ok) =>
    /\ CulturalSection(app) = "nothing"
    /\ app.culturalError = Some(cycles[Live].conceptsRes[1].message)
    /\ app.culturalConcepts = <<>>

C20_ConceptsFailureHidesSection ==
  []FailedConceptsHidden /\ [][ConceptsFailureOnlyHides]_vars

\* the concepts request failed with a credential configured while definition
\* and generated art are on display without any error
C20_Witness ==
  /\ apiKey /\ Live # 0
  /\ cycles[Live].conceptsRes # Null /\ ~cycles[Live].conceptsRes[1].ok
  /\ CulturalSection(app) = "nothing"
  /\ app.error = Null /\ app.content # <<>>
  /\ cycles[Live].artRes # Null /\ cycles[Live].artRes[1].ok /\ app.asciiArt # Null

\* C18: every failure of a gateway operation is caught where a view called
\* it and becomes view state: the miner and the script writer store the
\* message as their error, the wiki view stores the definition error and the
\* cultural error and draws the fallback art; a failure that reaches a
\* superseded fetch cycle changes nothing; no request is left unsettled with
\* its loading flag cleared, or settled with it set.
MinerFailureStored ==
  /\ \A r \in MinerResponses :
       (views'.miner # views.miner /\ MinerRespond(r) /\ ~performPhonosemanticSearch(r).ok) =>
         /\ views'.miner.error = Some(performPhonosemanticSearch(r).message)
         /\ ~views'.miner.isLoading /\ views'.miner.results = <<>>
  /\ (views'.miner # views.miner /\ ~apiKey /\ MinerSubmit) =>
       views'.miner.error = Some(ConfigMessage) /\ ~views'.miner.isLoading

WriterFailureStored ==
  /\ \A r \in WriterResponses :
       (/\ views'.writer # views.writer
        /\ WriterRespond(r)
        /\ ~getScriptForWord(views.writer.call[1].word, views.writer.call[1].language, r).ok) =>
         /\ views'.writer.error =
              Some(getScriptForWord(views.writer.call[1].word,
                                    views.writer.call[1].language, r).message)
         /\ ~views'.writer.isLoading /\ views'.writer.result = Null
  /\ (views'.writer # views.writer /\ ~apiKey /\ WriterSubmit) =>
       views'.writer.error = Some(ConfigMessage) /\ ~views'.writer.isLoading

WikiFailureStored ==
  \A i \in 1..Len(cycles) :
    Len(cycles') = Len(cycles) =>
      /\ (cycles[i].artAttempt > 0 /\ cycles'[i].artAttempt = 0) =>
           IF cycles[i].isCancelled THEN app' = app
           ELSE ~cycles'[i].artRes[1].ok =>
                  app'.asciiArt = Some(createFallbackArt(cycles[i].topic))
      /\ (cycles[i].conceptsPending /\ ~cycles'[i].conceptsPending) =>
           IF cycles[i].isCancelled THEN app' = app
           ELSE ~cycles'[i].conceptsRes[1].ok =>
                  /\ app'.culturalError = Some(cycles'[i].conceptsRes[1].message)
                  /\ ~app'.isCulturalLoading
      /\ (cycles[i].stream = "open" /\ cycles'[i].stream # "open") =>
           IF cycles[i].isCancelled THEN app' = app
           ELSE cycles'[i].stream = "failed" =>
                  /\ cycles'[i].thrown # Null
                  /\ app'.error = cycles'[i].thrown
                  /\ app'.content = <<>> /\ ~app'.isLoading

NoRequestLost ==
  /\ views.miner.isLoading <=> views.miner.pending > 0
  /\ views.writer.isLoading <=> views.writer.call # Null
  /\ ~(views.miner.error # Null /\ views.miner.results # <<>>)
  /\ ~(views.writer.error # Null /\ views.writer.result # Null)
  /\ (Live # 0 /\ ~apiKey) =>
       /\ app.error = Some(ConfigFragment) /\ ~app.isLoading
       /\ app.culturalError = Some(ConfigMessage) /\ ~app.isCulturalLoading
       /\ app.asciiArt = Some(createFallbackArt(app.currentTopic))

C18_FailuresBecomeViewState ==
  []NoRequestLost /\ [][MinerFailureStored /\ WriterFailureStored /\ WikiFailureStored]_vars

\* with a credential: the definition stream of the wiki view had failed, then
\* the miner's search failed too and shows its message
C18_Witness ==
  /\ apiKey /\ app.mode = "miner"
  /\ cycles # <<>> /\ cycles[1].stream = "failed"
  /\ views.miner.error # Null /\ ~views.miner.isLoading /\ views.miner.results = <<>>

\* C21: getRandomWord, streamDefinition, getCrossCulturalConcepts,
\* performPhonosemanticSearch and getScriptForWord issue at most one remote
\* request per invocation: the first response settles the invocation, and a
\* thrown remote call or a response that does not parse is raised at once.
SingleRequestOps == Ops \ {"generateAsciiArt"}

Malformed(r) == ~r.fail /\ ~JSONParse(Trim(r.text)).ok /\ ~JSONParse(UnwrapFence(r.text)).ok

C21_NoRetry ==
  gw.op \in SingleRequestOps =>
    /\ gw.requests <= 1
    /\ gw.requests = 0 <=> ~apiKey
    /\ gw.resps # <<>> =>
          /\ Len(gw.resps) = 1
          /\ gw.pc = "done"
          /\ gw.resps[1].fail => ~gw.res.ok
          /\ (gw.op \in JsonOps /\ Malformed(gw.resps[1])) => ~gw.res.ok

\* the only request of getCrossCulturalConcepts threw and the failure was raised
C21_Witness ==
  /\ gw.op = "getCrossCulturalConcepts" /\ gw.pc = "done"
  /\ gw.requests = 1 /\ Len(gw.resps) = 1 /\ gw.resps[1].fail
  /\ ~gw.res.ok

\* C22: getScriptForWord raises when the script field of the parsed payload
\* is missing, null or the empty string, and otherwise returns the parsed
\* script, romanization, ipa and note together with the word and the
\* language of the call.
C22_ScriptRequired ==
  (gw.op = "getScriptForWord" /\ gw.pc = "done" /\ gw.resps # <<>>
     /\ ~Last(gw.resps).fail /\ JSONParse(Trim(Last(gw.resps).text)).ok
     /\ JSONParse(Trim(Last(gw.resps).text)).t # "null") =>
    LET parsed == JSONParse(Trim(Last(gw.resps).text))
        script == Prop(parsed, "script")
    IN  /\ (script.t \in {"undefined", "null"} \/ script.v = <<>>) =>
              /\ ~gw.res.ok
              /\ gw.res.message =
                   <<"Could not get script for ">> \o gw.args[1] \o <<" in ">> \o gw.args[2]
                     \o <<": ", "Could not find a representation for ">> \o gw.args[1]
                     \o <<" in ">> \o gw.args[2]
        /\ ~(script.t \in {"undefined", "null"} \/ script.v = <<>>) =>
              /\ gw.res.ok
              /\ gw.res.value[1] =
                   [script |-> script,
                    romanization |-> Prop(parsed, "romanization"),
                    ipa |-> Prop(parsed, "ipa"),
                    note |-> Prop(parsed, "note"),
                    language |-> <<"Hebrew">>, word |-> <<"love">>]

\* a payload with all four fields came back and was returned with the
\* arguments of the call
C22_Witness ==
  /\ gw.op = "getScriptForWord" /\ gw.pc = "done" /\ gw.resps # <<>>
  /\ gw.res.ok
  /\ gw.res.value[1].script.v = <<"S">> /\ gw.res.value[1].note.v = <<"N">>
  /\ gw.res.value[1].word = <<"love">> /\ gw.res.value[1].language = <<"Hebrew">>

\* C23: getCrossCulturalConcepts raises when the parsed payload is not an
\* array and returns the parsed array as it is, the empty one included.
C23_ConceptsArrayRequired ==
  (gw.op = "getCrossCulturalConcepts" /\ gw.pc = "done" /\ gw.resps # <<>>
     /\ ~Last(gw.resps).fail /\ JSONParse(UnwrapFence(Last(gw.resps).text)).ok) =>
    LET concepts == JSONParse(UnwrapFence(Last(gw.resps).text))
    IN  /\ concepts.t # "array" =>
              /\ ~gw.res.ok
              /\ gw.res.message = <<"Could not fetch cultural concepts: ",
                                     "Response is not a valid array of concepts.">>
        /\ concepts.t = "array" => gw.res.ok /\ gw.res.value[1] = concepts.v

\* the remote model named no concepts and the empty array was returned
C23_Witness ==
  /\ gw.op = "getCrossCulturalConcepts" /\ gw.pc = "done" /\ gw.resps # <<>>
  /\ ~Last(gw.resps).fail
  /\ UnwrapFence(Last(gw.resps).text) = <<"[", "]">>
  /\ gw.res.ok /\ gw.res.value[1] = <<>>

\* C24: leaving wiki mode cancels the fetch cycle that was live and starts
\* none; outside wiki mode no cycle is live and none starts; returning to
\* wiki mode starts a new cycle for the unchanged topic, with its three
\* requests in flight when a credential is configured.
LeavingCancels ==
  (app.mode = "wiki" /\ app'.mode # "wiki") =>
    /\ Len(cycles') = Len(cycles)
    /\ cycles'[Len(cycles')].isCancelled
    /\ \A i \in 1..Len(cycles) :
          /\ cycles'[i].artAttempt = cycles[i].artAttempt
          /\ cycles'[i].conceptsPending = cycles[i].conceptsPending
          /\ cycles'[i].stream = cycles[i].stream

OutsideStartsNothing ==
  (app.mode # "wiki" /\ app'.mode # "wiki") => Len(cycles') = Len(cycles)

ReturningRefetches ==
  (app.mode # "wiki" /\ app'.mode = "wiki") =>
    /\ app'.currentTopic = app.currentTopic
    /\ Len(cycles') = Len(cycles) + 1
    /\ cycles'[Len(cycles')].topic = app.currentTopic
    /\ ~cycles'[Len(cycles')].isCancelled
    /\ apiKey => AllInFlight(cycles'[Len(cycles')])
    /\ app'.isLoading = apiKey /\ app'.isCulturalLoading = apiKey

C24_ModeSwitchRefetches ==
  [](app.mode # "wiki" => Live = 0)
    /\ [][LeavingCancels /\ OutsideStartsNothing /\ ReturningRefetches]_vars

\* the view left wiki mode and came back: a second cycle runs for the topic
\* of the first, which is cancelled
C24_Witness ==
  /\ app.mode = "wiki" /\ Len(cycles) = 2
  /\ cycles[1].isCancelled /\ ~cycles[2].isCancelled
  /\ cycles[2].topic = cycles[1].topic /\ cycles[2].topic = app.currentTopic

\* C25: the generation time is null from the start of a fetch cycle until
\* its definition stream settles; at that moment, by success or by error, it
\* becomes the time elapsed since the cycle started and then stays until the
\* next cycle starts; a cancelled cycle never changes it.
StreamOver(c) == c.stream \in {"done", "failed"}

TimeMatchesLiveCycle ==
  Live # 0 =>
    LET c == cycles[Live]
    IN  /\ c.stream = "open" => app.generationTime = Null
        /\ StreamOver(c) =>
              /\ c.endTime # Null
              /\ app.generationTime = Some(c.endTime[1] - c.startTime)

TimeSetOnlyAtSettle ==
  app'.generationTime # app.generationTime =>
    \/ /\ Len(cycles') = Len(cycles) + 1
       /\ app'.generationTime = IF apiKey THEN Null ELSE Some(0)
    \/ /\ Len(cycles') = Len(cycles) /\ Live # 0 /\ Live' = Live
       /\ cycles[Live].stream = "open" /\ StreamOver(cycles'[Live])
       /\ app'.generationTime = Some(now - cycles[Live].startTime)

CancelledNeverSetsTime ==
  \A i \in 1..Len(cycles) :
    (Len(cycles') = Len(cycles) /\ cycles[i].isCancelled
       /\ cycles'[i].stream # cycles[i].stream) =>
      app'.generationTime = app.generationTime

C25_GenerationTime ==
  []TimeMatchesLiveCycle /\ [][TimeSetOnlyAtSettle /\ CancelledNeverSetsTime]_vars

\* the first cycle was superseded and its stream ended afterwards; the
\* second started at time 0 and its stream settled at time 1
C25_Witness ==
  /\ Len(cycles) = 2 /\ Live = 2
  /\ cycles[1].stream # "open"
  /\ cycles[2].stream = "done" /\ cycles[2].startTime = 0
  /\ app.generationTime = Some(1)

\* C26: the art display shows the payload of the wiki view.  With a payload
\* the visible text is a prefix of it, grows by its next character per timer
\* tick, and once it is the whole payload the next tick clears the streaming
\* flag; unless the payload changes first, that point is reached.  A change
\* of payload empties the visible text before anything of the new payload is
\* typed, and without a payload the text is the placeholder "*".
IsPrefix(p, s) == Len(p) <= Len(s) /\ SubSeq(s, 1, Len(p)) = p

ArtDatas ==
  { [art |-> <<"X">>, text |-> Null] }
    \cup { createFallbackArt(t) : t \in { <<"Hypertext">>, <<"Balance">>, <<"Harmony">> } }

TypedOut(artData) ==
  display.visibleContent = FullText(artData) /\ ~display.isStreaming

DisplayShape ==
  /\ app.mode = "wiki" => display.artData = app.asciiArt
  /\ display.artData = Null =>
        display.visibleContent = <<"*">> /\ ~display.isStreaming /\ display.interval = Null
  /\ display.artData # Null =>
        /\ display.artData[1] \in ArtDatas
        /\ IsPrefix(display.visibleContent, FullText(display.artData[1]))
        /\ display.isStreaming <=> display.interval # Null
        /\ ~display.isStreaming => display.visibleContent = FullText(display.artData[1])

TypingStep ==
  /\ display'.artData # display.artData =>
        display'.visibleContent = IF display'.artData = Null THEN <<"*">> ELSE <<>>
  /\ (display'.artData = display.artData /\ display' # display) =>
        /\ display.artData # Null /\ display.isStreaming
        /\ LET fullText == FullText(display.artData[1])
               n == Len(display.visibleContent)
           IN  IF n < Len(fullText)
                 THEN /\ display'.visibleContent = Append(display.visibleContent, fullText[n + 1])
                      /\ display'.isStreaming
                 ELSE /\ display'.visibleContent = display.visibleContent
                      /\ ~display'.isStreaming

TypingCompletes ==
  \A p \in ArtDatas :
    (display.artData = Some(p)) ~> (TypedOut(p) \/ display.artData # Some(p))

C26_ArtTyping == []DisplayShape /\ [][TypingStep]_vars /\ TypingCompletes

\* a second cycle replaced the art of the first and its art, longer than one
\* character, is typed out in full
C26_Witness ==
  /\ Len(cycles) = 2 /\ app.mode = "wiki"
  /\ display.artData # Null /\ display.artData = app.asciiArt
  /\ Len(display.visibleContent) > 1
  /\ TypedOut(display.artData[1])

\* C27: in wiki mode a fetch cycle is live, and once its three requests
\* have settled neither isLoading nor isCulturalLoading is set; a step that
\* sets either flag, a random pick included, starts the cycle whose settling
\* clears it.
LoadingEnds ==
  (Mounted /\ app.mode = "wiki") =>
    /\ Live # 0
    /\ cycles[Live].topic = app.currentTopic
    /\ Settled(cycles[Live]) => ~app.isLoading /\ ~app.isCulturalLoading

LoadingStartsCycle ==
  ((~app.isLoading /\ app'.isLoading) \/ (~app.isCulturalLoading /\ app'.isCulturalLoading)) =>
    /\ Len(cycles') = Len(cycles) + 1
    /\ ~Settled(cycles'[Len(cycles')])

C27_LoadingTerminates == []LoadingEnds /\ [][LoadingStartsCycle]_vars

\* after two random picks in a row the three requests of the third cycle
\* have settled and both loading flags are clear
C27_Witness ==
  /\ apiKey /\ app.mode = "wiki" /\ Len(cycles) = 3 /\ Live = 3
  /\ cycles[2].topic = UNIQUE_WORDS[1] /\ app.currentTopic = UNIQUE_WORDS[2]
  /\ Settled(cycles[3])
  /\ ~app.isLoading /\ ~app.isCulturalLoading

\* C28: a random pick sets the drawn word as topic, or the word after it in
\* the list (the first after the last) when the drawn word equals the
\* current topic ignoring case; the new topic differs from the old one
\* ignoring case, and the view is in wiki mode afterwards.
C28_RandomPickChangesTopic ==
  [][\A i \in 1..Len(UNIQUE_WORDS) :
       handleRandomWithin(i, MaxPickCycles) =>
         /\ toLowerCase(app'.currentTopic) # toLowerCase(app.currentTopic)
         /\ app'.currentTopic =
              IF toLowerCase(UNIQUE_WORDS[i]) = toLowerCase(app.currentTopic)
                THEN UNIQUE_WORDS[(i % Len(UNIQUE_WORDS)) + 1]
                ELSE UNIQUE_WORDS[i]
         /\ app'.mode = "wiki"
         /\ cycles'[Len(cycles')].topic = app'.currentTopic]_vars

\* the topic was the searched word harmony and a pick followed: whether the
\* first word of the list was drawn or the last, which equals the topic
\* ignoring case, the new topic is the first word
C28_Witness ==
  /\ Len(cycles) = 3 /\ cycles[2].topic = <<"harmony">>
  /\ app.currentTopic = UNIQUE_WORDS[1] /\ app.mode = "wiki" /\ Live = 3

\* C29: the wiki view never holds a definition error together with
\* non-empty definition content: a step that sets the error leaves the
\* content empty, and the content grows only in a step of the live cycle
\* whose stream is open, with no error before or after.
ErrorExcludesContent == ~(app.error # Null /\ app.content # <<>>)

ErrorClearsContent ==
  (app'.error # Null /\ app'.error # app.error) => app'.content = <<>>

ContentOnlyWithoutError ==
  (app'.content # app.content /\ app'.content # <<>>) =>
    /\ app.error = Null /\ app'.error = Null
    /\ Live # 0 /\ Len(cycles') = Len(cycles)
    /\ cycles[Live].stream = "open" /\ cycles'[Live].stream = "open"

C29_ErrorOrContent ==
  []ErrorExcludesContent /\ [][ErrorClearsContent /\ ContentOnlyWithoutError]_vars

\* the stream of the live cycle failed after a fragment had been shown: the
\* error is set and the content is empty again
C29_Witness ==
  /\ Live # 0 /\ cycles[Live].stream = "failed" /\ cycles[Live].received # <<>>
  /\ app.error # Null /\ app.content = <<>>

\* C30: in the mounted script-writer and phonetic-miner views a request is
\* issued only by a submit made while the view is not loading and, for the
\* script writer, with a non-blank word and language; so each view has at
\* most one request in flight, isLoading is set exactly while it has one,
\* and a view that is not loading never holds both a result and an error.
OneRequestPerView ==
  /\ views.miner.pending \in {0, 1} /\ views.writer.pending \in {0, 1}
  /\ views.miner.isLoading <=> views.miner.pending = 1
  /\ views.writer.isLoading <=> views.writer.pending = 1
  /\ views.writer.pending = 1 <=> views.writer.call # Null
  /\ views.writer.call # Null =>
        views.writer.call[1].word # <<>> /\ views.writer.call[1].language # <<>>
  /\ ~views.miner.isLoading => ~(views.miner.results # <<>> /\ views.miner.error # Null)
  /\ ~views.writer.isLoading => ~(views.writer.result # Null /\ views.writer.error # Null)

SubmitGuarded ==
  /\ views'.miner.pending > views.miner.pending =>
        ~views.miner.isLoading /\ views.miner.pending = 0
  /\ views'.writer.pending > views.writer.pending =>
        /\ ~views.writer.isLoading /\ views.writer.pending = 0
        /\ Trim(views.writer.word) # <<>> /\ Trim(views.writer.language) # <<>>
  /\ (WriterSubmit /\ (views.writer.isLoading \/ Trim(views.writer.word) = <<>>
                        \/ Trim(views.writer.language) = <<>>)) => UNCHANGED vars

====
